---- MODULE Spec2Model ----
(***************************************************************************)
(* Fulfillment orchestration and resilience layer of the ECI platform:     *)
(*   - the order / payment / shipment saga of the dashboard                *)
(*     (process_payment, update_order_status) over the orders and          *)
(*     shipments services,                                                 *)
(*   - the per-service health / backoff monitor (fetch_metrics),           *)
(*   - the two-tier read-through cache of the gateway.                     *)
(*   - the activity feed and the activity_logs table of the dashboard.     *)
(* Each part has its own specification (SpecSaga, SpecHealth, SpecCache,   *)
(* SpecAudit, SpecKeys, SpecPuts, SpecFetchers, SpecProxies);              *)
(* the variables of the other parts stay at their initial values.          *)
(***************************************************************************)
EXTENDS Integers, Sequences, FiniteSets, TLC

VARIABLES
    orders,         \* orders table: order id -> row (orders service)
    shipments,      \* shipments table: sequence of rows, row id = index
    utcnow,         \* wall clock read by datetime.utcnow()
    last,           \* the saga / orders request being answered: input and result
    SERVICE_STATE,  \* dashboard: per-service backoff state
    monotonic,      \* dashboard: time.monotonic(), in milliseconds
    metrics,        \* dashboard: metrics["services"] of the fetch being answered
    sweep,          \* dashboard: the test_services sweep being answered
    local_cache,    \* gateway: TTLCache, key -> cached JSON
    redis,          \* gateway: the Redis keyspace, key -> cached JSON
    redis_client,   \* gateway: None, or the client made at startup
    downstream,     \* per service: number of writes applied to its data
    confirmed,      \* per service: downstream[] as of the last mutation answered < 400
    gw,             \* the gateway request being answered: input and result
    recent_activity, \* dashboard: the in-memory activity feed, newest first
    activity_logs,  \* dashboard: rows of the activity_logs table
    added,          \* number of add_activity calls so far (the last activity)
    unpersisted,    \* number of INSERTs into activity_logs that raised
    reply,          \* the activity / logs request being answered
    keyed,          \* gateway: two read requests and the cache keys built for them
    order_row,      \* orders service: the row of one order, as committed
    puts,           \* orders service: the concurrent PUT /orders/{id} requests
    fetchers,       \* dashboard: the concurrent fetch_metrics invocations
    inflight        \* gateway: the concurrent proxy requests for one resource

sagaVars == <<orders, shipments, utcnow, last>>
healthVars == <<SERVICE_STATE, monotonic, metrics, sweep>>

cacheVars == <<local_cache, redis, redis_client, downstream, confirmed, gw>>

auditVars == <<recent_activity, activity_logs, added, unpersisted, reply>>

vars == <<orders, shipments, utcnow, last, SERVICE_STATE, monotonic, metrics, sweep,
          local_cache, redis, redis_client, downstream, confirmed, gw,
          recent_activity, activity_logs, added, unpersisted, reply, keyed,
          order_row, puts, fetchers, inflight>>

(* What the steps of one part leave alone: the variables of the other parts. *)
putVars == <<order_row, puts>>
sagaFrame == <<healthVars, cacheVars, auditVars, keyed, putVars, fetchers, inflight>>
healthFrame == <<sagaVars, cacheVars, auditVars, keyed, putVars, fetchers, inflight>>
cacheFrame == <<sagaVars, healthVars, auditVars, keyed, putVars, fetchers, inflight>>
auditFrame == <<sagaVars, healthVars, cacheVars, keyed, putVars, fetchers, inflight>>
keyFrame == <<sagaVars, healthVars, cacheVars, auditVars, putVars, fetchers, inflight>>
putFrame == <<sagaVars, healthVars, cacheVars, auditVars, keyed, fetchers, inflight>>
fetchFrame == <<sagaVars, cacheVars, auditVars, keyed, putVars, metrics, sweep, inflight>>
proxyFrame == <<sagaVars, healthVars, auditVars, keyed, putVars, fetchers,
                redis, redis_client, gw>>

----------------------------------------------------------------------------
(* Optional values: None is the empty sequence, a present value x is <<x>>. *)
None == <<>>
Some(x) == <<x>>
IsNone(v) == v = <<>>
Val(v) == v[1]

----------------------------------------------------------------------------
(* Bounds *)
MaxClock == 1           \* last value of the wall clock

OrderIds == {1, 2}
ShipmentIds == {1, 2, 3}    \* row ids the shipments table may hand out
TargetOrders == {1}     \* the orders the requests are about

OrderStatuses == {"PENDING", "PROCESSING", "SHIPPED", "DELIVERED", "UNDELIVERED", "CANCELLED"}
PaymentStatuses == {"PENDING", "COMPLETED", "FAILED"}
ShipmentStatuses == {"PENDING", "IN_TRANSIT", "DELIVERED", "CANCELLED"}
FinalPayment == {"COMPLETED", "FAILED"}

(* Outcome of one downstream HTTP call as seen by the caller:              *)
(*   ok   - the service ran the request and its response arrived           *)
(*   err  - a non-success response was returned, nothing was applied       *)
(*   exc  - the call raised (connect error, timeout) before being applied  *)
(*   lost - the service applied the request, the caller timed out          *)
ReadOutcomes == {"ok", "err", "exc"}
WriteOutcomes == {"ok", "err", "exc", "lost"}

----------------------------------------------------------------------------
(* Orders service *)

(* OrderUpdate: every field optional. *)
OrderUpdate(os, ps, pid, rid) ==
    [order_status |-> os, payment_status |-> ps, payment_id |-> pid, receipt_id |-> rid]

(* OrderService.update: only the provided fields are written. *)
OrderServiceUpdate(order, data) ==
    [order EXCEPT
        !.order_status = IF IsNone(data.order_status) THEN @ ELSE Val(data.order_status),
        !.payment_status = IF IsNone(data.payment_status) THEN @ ELSE Val(data.payment_status),
        !.payment_id = IF IsNone(data.payment_id) THEN @ ELSE data.payment_id,
        !.receipt_id = IF IsNone(data.receipt_id) THEN @ ELSE data.receipt_id]

(* A guard that refuses nothing. *)
GuardRefusesNothing(order, payload) == FALSE

(* A guard that looks at payment_status alone. *)
touching_payment_status_only(payload) == ~IsNone(payload.payment_status)

touching_payment_fields(payload) ==
    \/ ~IsNone(payload.payment_status)
    \/ ~IsNone(payload.payment_id)
    \/ ~IsNone(payload.receipt_id)

(* The guard of PUT /orders/{id}: payment fields are frozen once finalized. *)
PaymentGuardRefuses(order, payload) ==
    /\ order.payment_status \in FinalPayment
    /\ touching_payment_fields(payload)

(* PUT /orders/{order_id}: the response code and the table afterwards. *)
update_order(ords, order_id, payload) ==
    IF PaymentGuardRefuses(ords[order_id], payload)
    THEN [code |-> 403, orders |-> ords]
    ELSE [code |-> 200,
          orders |-> [ords EXCEPT ![order_id] = OrderServiceUpdate(@, payload)]]

----------------------------------------------------------------------------
(* Shipments service *)

Tracking(order_id, t) == <<order_id, t>>       \* "TRK" + order id + unix time
StandardDelivery == "Standard Delivery"

(* ShipmentCreate as sent by the dashboard (fields the schema does not      *)
(* declare, such as customer_id, items and shipping_address, are dropped).  *)
ShipmentCreate(order_id, status, carrier, tracking_no, shipped_at) ==
    [order_id |-> order_id, status |-> status, carrier |-> carrier,
     tracking_no |-> tracking_no, shipped_at |-> shipped_at]

(* A create that answers without inserting the row. *)
ShipmentServiceCreateNoInsert(ships, data, t) == ships

(* ShipmentService.create: defaults for the absent fields, then INSERT. *)
ShipmentServiceCreate(ships, data, t) ==
    Append(ships,
        [order_id |-> data.order_id,
         status |-> IF IsNone(data.status) THEN "PENDING" ELSE Val(data.status),
         carrier |-> IF IsNone(data.carrier) THEN Some(StandardDelivery) ELSE data.carrier,
         tracking_no |-> IF IsNone(data.tracking_no)
                         THEN Some(Tracking(data.order_id, t)) ELSE data.tracking_no,
         shipped_at |-> IF IsNone(data.shipped_at) THEN Some(t) ELSE data.shipped_at,
         delivered_at |-> None])

(* ShipmentUpdate declares status, carrier, tracking_no and delivered_at;   *)
(* a shipped_at key in the request body is not part of the schema.          *)
ShipmentUpdate(status, carrier, tracking_no, delivered_at) ==
    [status |-> status, carrier |-> carrier, tracking_no |-> tracking_no,
     delivered_at |-> delivered_at]

(* ShipmentService.update: setattr for every field that was sent. *)
ShipmentServiceUpdate(ships, shipment_id, data) ==
    [ships EXCEPT ![shipment_id] =
        [@ EXCEPT
            !.status = IF IsNone(data.status) THEN @ ELSE Val(data.status),
            !.carrier = IF IsNone(data.carrier) THEN @ ELSE data.carrier,
            !.tracking_no = IF IsNone(data.tracking_no) THEN @ ELSE data.tracking_no,
            !.delivered_at = IF IsNone(data.delivered_at) THEN @ ELSE data.delivered_at]]

ShipmentsOf(ships, order_id) == {i \in 1..Len(ships) : ships[i].order_id = order_id}

----------------------------------------------------------------------------
(* Downstream calls of the dashboard's httpx client, with their outcome. *)

Applied(out) == out \in {"ok", "lost"}
Raised(out) == out \in {"exc", "lost"}

(* client.put(orders/{id}) *)
PutOrder(ords, order_id, payload, out) ==
    LET r == update_order(ords, order_id, payload) IN
    [raised |-> Raised(out),
     code |-> IF out = "ok" THEN r.code ELSE 500,
     orders |-> IF Applied(out) THEN r.orders ELSE ords]

(* client.post(shipments/) *)
PostShipment(ships, data, t, out) ==
    [raised |-> Raised(out),
     code |-> IF out = "ok" THEN 201 ELSE 500,
     shipments |-> IF Applied(out) THEN ShipmentServiceCreate(ships, data, t) ELSE ships]

(* client.put(shipments/{id}) *)
PutShipment(ships, shipment_id, data, out) ==
    [raised |-> Raised(out),
     code |-> IF out = "ok" THEN 200 ELSE 500,
     shipments |-> IF Applied(out) THEN ShipmentServiceUpdate(ships, shipment_id, data)
                   ELSE ships]

----------------------------------------------------------------------------
(* Dashboard saga: POST /api/orders/{order_id}/payment *)

(* add_activity(action, entity_type, entity_id, user, details) *)
Activity(action, entity_type, entity_id, details) ==
    [action |-> action, entity_type |-> entity_type, entity_id |-> entity_id,
     details |-> details]

(* What one saga request leaves behind: the two tables, the envelope it     *)
(* returns, the downstream calls it issued in order, the audit records.     *)
Outcome(ords, ships, success, calls, audit, reported) ==
    [orders |-> ords, shipments |-> ships, success |-> success, calls |-> calls,
     audit |-> audit, reported |-> reported]

(* except Exception: the PAYMENT error record and {"success": False}. *)
PaymentError(ords, ships, order_id, calls, audit) ==
    Outcome(ords, ships, FALSE, calls,
            Append(audit, Activity("PAYMENT", "order", order_id, "Payment error")), None)

(* The tail of process_payment: the PAYMENT record and {"success": True}. *)
PaymentDone(ords, ships, order_id, calls, audit, message, payment_status) ==
    Outcome(ords, ships, TRUE, calls,
            Append(audit, Activity("PAYMENT", "order", order_id, message)),
            Some(payment_status))

(* One entry of the log of downstream calls: the call and the status code   *)
(* it was answered with, 0 where the call raised instead.                   *)
Call(name, code) == [call |-> name, code |-> code]
ReadCode(out) == IF out = "ok" THEN 200 ELSE IF out = "err" THEN 500 ELSE 0
Answered(resp) == IF resp.raised THEN 0 ELSE resp.code

(* Approve, after the order PUT returned: customers, then the shipment POST. *)
ApproveShipment(ords, ships, order_id, calls, t) ==
    LET shipment_data == ShipmentCreate(order_id, Some("PENDING"), None, None, None)
        AfterPost(c3, out) ==
            LET p == PostShipment(ships, shipment_data, t, out)
                c4 == Append(c3, Call("POST shipment", Answered(p)))
            IN
            IF p.raised THEN {PaymentError(ords, p.shipments, order_id, c4, <<>>)}
            ELSE {PaymentDone(ords, p.shipments, order_id, c4,
                    IF p.code = 201
                    THEN <<Activity("CREATE", "shipment", Len(p.shipments),
                                    "Shipment created")>>
                    ELSE <<>>,
                    "Payment approved", "COMPLETED")}
        AfterCustomers(out) ==
            LET c3 == Append(calls, Call("GET customers", ReadCode(out))) IN
            IF out = "exc" THEN {PaymentError(ords, ships, order_id, c3, <<>>)}
            ELSE UNION {AfterPost(c3, wo) : wo \in WriteOutcomes}
    IN UNION {AfterCustomers(ro) : ro \in ReadOutcomes}

(* Approve: fetch the order, PUT COMPLETED / PROCESSING, go on to the shipment. *)
ApprovePayment(ords, ships, order_id, payment_action, t) ==
    LET update_data == OrderUpdate(Some("PROCESSING"), Some("COMPLETED"),
                                   payment_action.payment_id, payment_action.receipt_id)
        AfterPut(c1, out) ==
            LET u == PutOrder(ords, order_id, update_data, out)
                c2 == Append(c1, Call("PUT order", Answered(u)))
            IN
            IF u.raised THEN {PaymentError(u.orders, ships, order_id, c2, <<>>)}
            ELSE ApproveShipment(u.orders, ships, order_id, c2, t)
        AfterGet(out) ==
            LET c1 == <<Call("GET order", ReadCode(out))>> IN
            IF out = "exc" THEN {PaymentError(ords, ships, order_id, c1, <<>>)}
            ELSE IF out = "err"
            THEN {PaymentDone(ords, ships, order_id, c1, <<>>,
                              "Payment approved", "COMPLETED")}
            ELSE UNION {AfterPut(c1, wo) : wo \in WriteOutcomes}
    IN UNION {AfterGet(ro) : ro \in ReadOutcomes}

(* A decline that writes payment_status only. *)
DeclinePaymentStatusOnly(ords, ships, order_id) ==
    LET data == OrderUpdate(None, Some("FAILED"), None, None)
        AfterPut(out) ==
            LET u == PutOrder(ords, order_id, data, out)
                c1 == <<Call("PUT order", Answered(u))>>
            IN
            IF u.raised THEN {PaymentError(u.orders, ships, order_id, c1, <<>>)}
            ELSE {PaymentDone(u.orders, ships, order_id, c1, <<>>,
                              "Payment declined", "FAILED")}
    IN UNION {AfterPut(wo) : wo \in WriteOutcomes}

(* Any other action: PUT FAILED / CANCELLED. *)
DeclinePayment(ords, ships, order_id) ==
    LET data == OrderUpdate(Some("CANCELLED"), Some("FAILED"), None, None)
        AfterPut(out) ==
            LET u == PutOrder(ords, order_id, data, out)
                c1 == <<Call("PUT order", Answered(u))>>
            IN
            IF u.raised THEN {PaymentError(u.orders, ships, order_id, c1, <<>>)}
            ELSE {PaymentDone(u.orders, ships, order_id, c1, <<>>,
                              "Payment declined", "FAILED")}
    IN UNION {AfterPut(wo) : wo \in WriteOutcomes}

(* Every way the request can end, over the outcomes of its downstream calls. *)
process_payment(ords, ships, order_id, payment_action, t) ==
    IF payment_action.action = Some("approve")
    THEN ApprovePayment(ords, ships, order_id, payment_action, t)
    ELSE DeclinePayment(ords, ships, order_id)

----------------------------------------------------------------------------
(* Dashboard saga: PUT /api/orders/{order_id}/status *)

Inner(ships, calls, audit) == [shipments |-> ships, calls |-> calls, audit |-> audit]

(* PUT of an existing shipment followed by its UPDATE audit record; a raised *)
(* call leaves the inner try block before add_activity.                      *)
ShipmentPut(ships, shipment_id, payload, calls, details) ==
    LET AfterPut(out) ==
            LET p == PutShipment(ships, shipment_id, payload, out) IN
            {Inner(p.shipments, Append(calls, Call("PUT shipment", Answered(p))),
                   IF p.raised THEN <<>>
                   ELSE <<Activity("UPDATE", "shipment", shipment_id, details)>>)}
    IN UNION {AfterPut(wo) : wo \in WriteOutcomes}

(* The SHIPPED branch acts on the shipments only for a COMPLETED payment. *)
MayShip(payment_status) == payment_status = "COMPLETED"

(* The DELIVERED branch acts only on a shipment that is IN_TRANSIT or PENDING. *)
MayDeliver(shipment_status) == shipment_status \in {"IN_TRANSIT", "PENDING"}

(* SHIPPED, payment COMPLETED, no shipment found: create one IN_TRANSIT. *)
ShipNew(ships, order_id, calls, t) ==
    LET shipment_data == ShipmentCreate(order_id, Some("IN_TRANSIT"),
                                        Some(StandardDelivery),
                                        Some(Tracking(order_id, t)), Some(t))
        AfterPost(c3, out) ==
            LET p == PostShipment(ships, shipment_data, t, out) IN
            {Inner(p.shipments, Append(c3, Call("POST shipment", Answered(p))),
                   IF ~p.raised /\ p.code = 201
                   THEN <<Activity("CREATE", "shipment", Len(p.shipments),
                                   "Shipment created")>>
                   ELSE <<>>)}
        AfterCustomers(out) ==
            LET c3 == Append(calls, Call("GET customers", ReadCode(out))) IN
            IF out = "exc" THEN {Inner(ships, c3, <<>>)}
            ELSE UNION {AfterPost(c3, wo) : wo \in WriteOutcomes}
    IN UNION {AfterCustomers(ro) : ro \in ReadOutcomes}

(* A SHIPPED update that sends carrier and tracking number unconditionally. *)
ShipExistingOverwriting(ships, order_id, pick, calls, t) ==
    ShipmentPut(ships, pick,
                ShipmentUpdate(Some("IN_TRANSIT"), Some(StandardDelivery),
                               Some(Tracking(order_id, t)), None),
                calls, "Shipment moved to IN_TRANSIT")

(* SHIPPED, payment COMPLETED, a shipment found: move it to IN_TRANSIT and   *)
(* backfill carrier and tracking number where blank.                         *)
ShipExisting(ships, order_id, pick, calls, t) ==
    LET order_shipment == ships[pick]
        update_payload == ShipmentUpdate(Some("IN_TRANSIT"),
            IF IsNone(order_shipment.carrier) THEN Some(StandardDelivery) ELSE None,
            IF IsNone(order_shipment.tracking_no)
            THEN Some(Tracking(order_id, t)) ELSE None,
            None)
    IN ShipmentPut(ships, pick, update_payload, calls, "Shipment moved to IN_TRANSIT")

(* The branches of the inner try block, order_shipment being row pick       *)
(* (pick = 0: None).                                                        *)
ShipmentBranch(ords, ships, order_id, order_status, pick, calls, t) ==
    IF order_status = Some("SHIPPED")
    THEN
        LET AfterGetOrder(out) ==
                LET c2 == Append(calls, Call("GET order", ReadCode(out))) IN
                IF out # "ok" THEN {Inner(ships, c2, <<>>)}
                ELSE IF ~MayShip(ords[order_id].payment_status)
                THEN {Inner(ships, c2, <<>>)}
                ELSE IF pick = 0 THEN ShipNew(ships, order_id, c2, t)
                ELSE ShipExisting(ships, order_id, pick, c2, t)
        IN UNION {AfterGetOrder(ro) : ro \in ReadOutcomes}
    ELSE IF order_status = Some("DELIVERED") /\ pick # 0
    THEN
        IF MayDeliver(ships[pick].status)
        THEN ShipmentPut(ships, pick,
                         ShipmentUpdate(Some("DELIVERED"), None, None, Some(t)),
                         calls, "Shipment delivered")
        ELSE {Inner(ships, calls, <<>>)}
    ELSE IF order_status = Some("UNDELIVERED") /\ pick # 0
    THEN ShipmentPut(ships, pick, ShipmentUpdate(Some("CANCELLED"), None, None, None),
                     calls, "Shipment cancelled (undelivered)")
    ELSE IF order_status = Some("CANCELLED") /\ pick # 0
    THEN ShipmentPut(ships, pick, ShipmentUpdate(Some("CANCELLED"), None, None, None),
                     calls, "Shipment cancelled")
    ELSE {Inner(ships, calls, <<>>)}

(* next((s for s in shipments if s['order_id'] == order_id), None) over the *)
(* rows of SELECT * FROM shipments, which carries no ORDER BY: any matching *)
(* row, or 0 for None; an answer other than 200 is read as the empty list.  *)
OrderShipmentChoices(ships, order_id, out) ==
    LET found == IF out = "ok" THEN ShipmentsOf(ships, order_id) ELSE {}
    IN IF found = {} THEN {0} ELSE found

(* The inner try block: "Handle shipment based on order status". *)
ShipmentSteps(ords, ships, order_id, order_status, t) ==
    LET AfterList(out) ==
            LET c1 == <<Call("GET shipments", ReadCode(out))>> IN
            IF out = "exc" THEN {Inner(ships, c1, <<>>)}
            ELSE UNION {ShipmentBranch(ords, ships, order_id, order_status, pick, c1, t) :
                            pick \in OrderShipmentChoices(ships, order_id, out)}
    IN UNION {AfterList(ro) : ro \in ReadOutcomes}

(* Every way the request can end, over the outcomes of its downstream calls. *)
update_order_status(ords, ships, order_id, status_data, t) ==
    LET AfterPut(out) ==
            LET response == PutOrder(ords, order_id, status_data, out)
                c1 == <<Call("PUT order", Answered(response))>>
            IN
            IF response.raised \/ response.code # 200
            THEN {Outcome(response.orders, ships, FALSE, c1, <<>>, None)}
            ELSE {Outcome(response.orders, inner.shipments, TRUE, c1 \o inner.calls,
                          Append(inner.audit,
                                 Activity("UPDATE", "order", order_id,
                                          "Updated order status")),
                          None) :
                    inner \in ShipmentSteps(response.orders, ships, order_id,
                                            status_data.order_status, t)}
    IN UNION {AfterPut(wo) : wo \in WriteOutcomes}

----------------------------------------------------------------------------
(* Dashboard health / backoff monitor: fetch_metrics *)

Services == {"orders", "shipments"}

POLL_INTERVAL_SEC == 2000       \* milliseconds
BACKOFF_FACTOR == 2
BACKOFF_MAX_SEC == 30000        \* milliseconds
BACKOFF_JITTER_MS == 250
MIN_DELAY_MS == 500             \* the floor max(0.5, ...) of the next delay

MaxNow == 28000                 \* last value of the monotonic clock
TickSteps == {2000}               \* time between two looks at the clock

(* What a probe can come to: 200, another status, httpx.ConnectError,       *)
(* httpx.TimeoutException, any other exception.                             *)
ProbeOutcomes == {"healthy", "unhealthy", "connect_error", "timeout", "exception"}
Jitters == {0 - BACKOFF_JITTER_MS, BACKOFF_JITTER_MS}   \* ends of random.randint

Max(a, b) == IF a >= b THEN a ELSE b
Min(a, b) == IF a <= b THEN a ELSE b

InitialState ==
    [last_status |-> None, last_response_time_ms |-> None,
     backoff_sec |-> POLL_INTERVAL_SEC, next_check_at |-> 0]

(* "Skip if backoff window not elapsed" *)
comparing_backoff(now, state) == now < state.backoff_sec

BackoffWindowOpen(now, state) == now < state.next_check_at

(* A step that doubles without the cap. *)
EscalateUncapped(backoff_sec) == Max(POLL_INTERVAL_SEC, backoff_sec * BACKOFF_FACTOR)

(* min(BACKOFF_MAX_SEC, max(POLL_INTERVAL_SEC, backoff_sec * BACKOFF_FACTOR)) *)
Escalate(backoff_sec) ==
    Min(BACKOFF_MAX_SEC, Max(POLL_INTERVAL_SEC, backoff_sec * BACKOFF_FACTOR))

(* now + max(0.5, backoff_sec + jitter) *)
NextCheckAt(now, backoff_sec, jitter) == now + Max(MIN_DELAY_MS, backoff_sec + jitter)

ProbeStatus(outcome) ==
    IF outcome \in {"healthy", "unhealthy"} THEN outcome ELSE "error"

(* A probe whose except branches report the error and leave the backoff. *)
ProbeEscalatingUnhealthyOnly(state, now, outcome, jitter) ==
    LET backoff_sec == IF outcome = "healthy" THEN POLL_INTERVAL_SEC
                       ELSE IF outcome = "unhealthy" THEN Escalate(state.backoff_sec)
                       ELSE state.backoff_sec
    IN [last_status |-> Some(ProbeStatus(outcome)),
        last_response_time_ms |-> IF outcome \in {"healthy", "unhealthy"}
                                  THEN Some("resp_ms") ELSE None,
        backoff_sec |-> backoff_sec,
        next_check_at |-> NextCheckAt(now, backoff_sec, jitter)]

(* The state record after a probe that ended with outcome. *)
Probe(state, now, outcome, jitter) ==
    LET backoff_sec == IF outcome = "healthy" THEN POLL_INTERVAL_SEC
                       ELSE Escalate(state.backoff_sec)
    IN [last_status |-> Some(ProbeStatus(outcome)),
        last_response_time_ms |-> IF outcome \in {"healthy", "unhealthy"}
                                  THEN Some("resp_ms") ELSE None,
        backoff_sec |-> backoff_sec,
        next_check_at |-> NextCheckAt(now, backoff_sec, jitter)]

(* metrics["services"][service] *)
Reused(state) ==
    [status |-> IF IsNone(state.last_status) THEN "unknown" ELSE Val(state.last_status),
     probed |-> FALSE]
Reported(outcome) == [status |-> ProbeStatus(outcome), probed |-> TRUE]

NoMetrics == [s \in Services |-> [status |-> "none", probed |-> FALSE]]

(* No test_services request is being answered. *)
NoSweep == [probed |-> {}, healthy |-> 0, total |-> 0]

InitHealth ==
    /\ SERVICE_STATE = [s \in Services |-> InitialState]
    /\ monotonic = 0
    /\ metrics = NoMetrics
    /\ sweep = NoSweep

(* One run of fetch_metrics over all services at time now = monotonic. *)
FetchMetrics ==
    /\ metrics = NoMetrics
    /\ sweep = NoSweep
    /\ \E outcome \in [Services -> ProbeOutcomes], jitter \in [Services -> Jitters] :
        /\ \A s \in Services :
              BackoffWindowOpen(monotonic, SERVICE_STATE[s])
              => (outcome[s] = "healthy" /\ jitter[s] = BACKOFF_JITTER_MS)
        /\ SERVICE_STATE' = [s \in Services |->
              IF BackoffWindowOpen(monotonic, SERVICE_STATE[s]) THEN SERVICE_STATE[s]
              ELSE Probe(SERVICE_STATE[s], monotonic, outcome[s], jitter[s])]
        /\ metrics' = [s \in Services |->
              IF BackoffWindowOpen(monotonic, SERVICE_STATE[s])
              THEN Reused(SERVICE_STATE[s])
              ELSE Reported(outcome[s])]
    /\ UNCHANGED <<monotonic, sweep>>

(* GET /api/test_services: a GET /health to every service in SERVICES, none *)
(* behind the next_check_at comparison; SERVICE_STATE is neither read nor   *)
(* written, and a raised probe is passed over.                              *)
TestServices ==
    /\ metrics = NoMetrics
    /\ sweep = NoSweep
    /\ \E outcome \in [Services -> ProbeOutcomes] :
        sweep' = [probed |-> Services,
                  healthy |-> Cardinality({s \in Services : outcome[s] = "healthy"}),
                  total |-> Cardinality(Services)]
    /\ UNCHANGED <<SERVICE_STATE, monotonic, metrics>>

(* The sweep's {"healthy", "total", "message"} goes out to the caller. *)
SendSweep ==
    /\ sweep # NoSweep
    /\ sweep' = NoSweep
    /\ UNCHANGED <<SERVICE_STATE, monotonic, metrics>>

(* The metrics go out to the websocket client or the snapshot caller. *)
SendMetrics ==
    /\ metrics # NoMetrics
    /\ metrics' = NoMetrics
    /\ UNCHANGED <<SERVICE_STATE, monotonic, sweep>>

(* asyncio.sleep(POLL_INTERVAL_SEC), or the wait for the next snapshot call. *)
Sleep ==
    /\ metrics = NoMetrics
    /\ sweep = NoSweep
    /\ \E d \in TickSteps :
        /\ monotonic + d <= MaxNow
        /\ monotonic' = monotonic + d
    /\ UNCHANGED <<SERVICE_STATE, metrics, sweep>>

NextHealth ==
    \/ FetchMetrics /\ UNCHANGED healthFrame
    \/ TestServices /\ UNCHANGED healthFrame
    \/ SendSweep /\ UNCHANGED healthFrame
    \/ SendMetrics /\ UNCHANGED healthFrame
    \/ Sleep /\ UNCHANGED healthFrame

----------------------------------------------------------------------------
(* Gateway: two-tier read-through cache and its invalidation *)

SERVICE_MAP == {"customers", "orders"}

MaxWrites == 1                  \* writes applied to one service's data

Digits == {"1"}
(* The resources requests go to: the service and the path below it. *)
Resources == {<<"customers", <<>>>>, <<"customers", <<"1">>>>, <<"orders", <<>>>>}
Mutating == {"POST", "PUT", "PATCH", "DELETE"}

(* What a downstream GET can come to: JSON with 200, JSON with a status      *)
(* >= 400 (404 for an entity that is missing), a body that is not JSON, an   *)
(* exception of the HTTP client.                                             *)
GetOutcomes(path) ==
    IF path = <<>> THEN {"ok", "text", "exc"} ELSE {"ok", "err", "text", "exc"}

(* f"{base}/{service}/{normalized_path}", as a sequence of tokens *)
build_downstream_url(service, path) == <<service, "/">> \o path

(* f"rest:GET:{url}:{request.query_params}" *)
RestKey(url, query_params) == <<"rest:GET:">> \o url \o <<":">> \o query_params

StartsWith(key, prefix) ==
    /\ Len(prefix) <= Len(key)
    /\ SubSeq(key, 1, Len(prefix)) = prefix

(* The JSON of a downstream answer, computed from the data as of its version. *)
Json(code, version) == [code |-> code, body |-> version]

Store(cache, key, value) ==
    [k \in DOMAIN cache \cup {key} |-> IF k = key THEN value ELSE cache[k]]

Purge(cache, prefixes) ==
    [k \in {x \in DOMAIN cache : \A pre \in prefixes : ~StartsWith(x, pre)} |-> cache[k]]

(* cache_get: Redis first where a client exists and the call does not raise, *)
(* else the local tier.                                                      *)
cache_get(local, red, client, key, redis_ok) ==
    IF client # None /\ redis_ok /\ key \in DOMAIN red THEN Some(red[key])
    ELSE IF key \in DOMAIN local THEN Some(local[key])
    ELSE None

(* A cache_set whose failed setex stores nothing. *)
cache_set_redis_only(local, red, client, key, value, redis_ok) ==
    [local |-> IF client # None THEN local ELSE Store(local, key, value),
     redis |-> IF client # None /\ redis_ok THEN Store(red, key, value) ELSE red]

(* cache_set: Redis alone where setex succeeds, else the local tier. *)
cache_set(local, red, client, key, value, redis_ok) ==
    IF client # None /\ redis_ok
    THEN [local |-> local, redis |-> Store(red, key, value)]
    ELSE [local |-> Store(local, key, value), redis |-> red]

(* cache_delete_pattern: every prefix purges the local tier; a prefix whose  *)
(* Redis scan raises (failing) leaves Redis as it is.                        *)
cache_delete_pattern(local, red, client, patterns, failing) ==
    [local |-> Purge(local, patterns),
     redis |-> IF client # None THEN Purge(red, patterns \ failing) ELSE red]

DetailPrefix(service, entity_id) == <<"rest:GET:", service, "/">> \o entity_id
ListPrefix(service) == <<"rest:GET:", service, "/">>
GqlPrefix(service) == <<"gql:", service>>

InvalidationPatterns(service, entity_id) ==
    IF entity_id # None
    THEN {DetailPrefix(service, Val(entity_id)), ListPrefix(service), GqlPrefix(service)}
    ELSE {ListPrefix(service), GqlPrefix(service)}

invalidate_caches(local, red, client, service, entity_id, failing) ==
    cache_delete_pattern(local, red, client,
                         InvalidationPatterns(service, entity_id), failing)

(* last_segment.isdigit() *)
IsDigit(path) == path # <<>> /\ \A i \in 1..Len(path) : path[i] \in Digits
EntityId(path) == IF IsDigit(path) THEN Some(path) ELSE None

(* A mutation is followed by invalidation exactly when it was answered < 400. *)
InvalidatesAlways(method, status_code) == method \in Mutating

InvalidatesOn(method, status_code) == method \in Mutating /\ status_code < 400

(* The status a downstream call comes back with; 0 where it raised instead.  *)
StatusOf(out) ==
    IF out \in {"ok", "text"} THEN 200 ELSE IF out = "err" THEN 404 ELSE 0

GwIdle == [op |-> "idle"]
GwBoot == [op |-> "boot"]

(* faults: the Redis operations of the request that raised. *)
Gw(op, method, service, path, status_code, calls, cached, purged, faults) ==
    [op |-> op, method |-> method, service |-> service, path |-> path,
     status_code |-> status_code, calls |-> calls, cached |-> cached,
     purged |-> purged, faults |-> faults]

InitCache ==
    /\ local_cache = <<>>
    /\ redis = <<>>
    /\ redis_client = None
    /\ downstream = [s \in SERVICE_MAP |-> 0]
    /\ confirmed = [s \in SERVICE_MAP |-> 0]
    /\ gw = GwBoot

(* _init_cache: the client, or None where the ping fails. *)
InitCacheClient ==
    /\ gw = GwBoot
    /\ redis_client' \in {None, Some("redis")}
    /\ gw' = GwIdle
    /\ UNCHANGED <<local_cache, redis, downstream, confirmed>>

(* A read through the cache: the shared part of proxy (GET) and of the       *)
(* list routes.  jsonErrors: whether a JSON answer >= 400 is stored          *)
(* (proxy) or raised (_forward_get).                                         *)
CachedRead(op, service, path, refresh, jsonErrors) ==
    LET key == RestKey(build_downstream_url(service, path), <<>>) IN
    \E get_ok, set_ok \in BOOLEAN :
        LET cached == IF refresh THEN None
                      ELSE cache_get(local_cache, redis, redis_client, key, get_ok)
            getF == IF ~refresh /\ redis_client # None /\ ~get_ok THEN {"get"} ELSE {}
            setF == IF redis_client # None /\ ~set_ok THEN {"set"} ELSE {}
        IN
        IF cached # None
        THEN /\ gw' = Gw(op, "GET", service, path, 200, <<"cache_get">>, cached, FALSE,
                         getF)
             /\ UNCHANGED <<local_cache, redis>>
        ELSE \E out \in GetOutcomes(path) :
            LET calls == (IF refresh THEN <<>> ELSE <<"cache_get">>) \o <<"downstream">>
                data == Json(StatusOf(out), downstream[service])
                stores == out = "ok" \/ (out = "err" /\ jsonErrors)
                c == cache_set(local_cache, redis, redis_client, key, data, set_ok)
            IN
            IF stores
            THEN /\ local_cache' = c.local
                 /\ redis' = c.redis
                 /\ gw' = Gw(op, "GET", service, path, StatusOf(out),
                             Append(calls, "cache_set"), None, FALSE, getF \cup setF)
            ELSE /\ gw' = Gw(op, "GET", service, path, StatusOf(out), calls, None, FALSE,
                             getF)
                 /\ UNCHANGED <<local_cache, redis>>

(* A write through the gateway: the shared part of proxy (POST, PUT, PATCH,  *)
(* DELETE) and of the create / update / delete routes.                       *)
ForwardedWrite(op, method, service, path, entity_id) ==
    \E out \in WriteOutcomes :
        /\ Applied(out) => downstream[service] < MaxWrites
        /\ downstream' = IF Applied(out)
                         THEN [downstream EXCEPT ![service] = @ + 1]
                         ELSE downstream
        /\ confirmed' = IF out = "ok"
                        THEN [confirmed EXCEPT ![service] = downstream'[service]]
                        ELSE confirmed
        /\ LET status_code == IF Raised(out) THEN 0 ELSE StatusOf(out) IN
           IF ~Raised(out) /\ InvalidatesOn(method, status_code)
           THEN \E failing \in SUBSET InvalidationPatterns(service, entity_id) :
                LET c == invalidate_caches(local_cache, redis, redis_client,
                                           service, entity_id, failing)
                IN /\ local_cache' = c.local
                   /\ redis' = c.redis
                   /\ gw' = Gw(op, method, service, path, status_code,
                               <<"downstream", "invalidate">>, None,
                               redis_client = None \/ failing = {},
                               IF redis_client # None /\ failing # {}
                               THEN {"delete"} ELSE {})
           ELSE /\ gw' = Gw(op, method, service, path, status_code,
                            <<"downstream">>, None, FALSE, {})
                /\ UNCHANGED <<local_cache, redis>>

(* proxy, GET *)
ProxyGet ==
    /\ gw = GwIdle
    /\ \E res \in Resources :
        CachedRead("proxy", res[1], res[2], FALSE, TRUE)
    /\ UNCHANGED <<redis_client, downstream, confirmed>>

(* proxy, POST / PUT / PATCH / DELETE *)
ProxyMutate ==
    /\ gw = GwIdle
    /\ \E res \in Resources, method \in Mutating :
        ForwardedWrite("proxy", method, res[1], res[2], EntityId(res[2]))
    /\ UNCHANGED redis_client

(* get_customers, get_orders, ...: the list routes, with their refresh flag *)
RouterList ==
    /\ gw = GwIdle
    /\ \E service \in SERVICE_MAP, refresh \in BOOLEAN :
        CachedRead("router", service, <<>>, refresh, FALSE)
    /\ UNCHANGED <<redis_client, downstream, confirmed>>

(* create_order, update_order, delete_order, ...: the downstream call, an    *)
(* HTTPException for a status >= 400, else _invalidate_caches(service, base) *)
(* (the services answer POST and PUT with JSON, so resp.json() returns).     *)
RouterMutate ==
    /\ gw = GwIdle
    /\ \E res \in Resources :
        \E method \in (IF res[2] = <<>> THEN {"POST"} ELSE {"PUT", "DELETE"}) :
            ForwardedWrite("router", method, res[1], res[2], None)
    /\ UNCHANGED redis_client

(* The TTL of an entry runs out in one of the tiers. *)
Expire ==
    /\ gw = GwIdle
    /\ \/ \E key \in DOMAIN local_cache :
            /\ local_cache' = [k \in DOMAIN local_cache \ {key} |-> local_cache[k]]
            /\ UNCHANGED redis
       \/ \E key \in DOMAIN redis :
            /\ redis' = [k \in DOMAIN redis \ {key} |-> redis[k]]
            /\ UNCHANGED local_cache
    /\ UNCHANGED <<redis_client, downstream, confirmed, gw>>

GwRespond ==
    /\ gw \notin {GwIdle, GwBoot}
    /\ gw' = GwIdle
    /\ UNCHANGED <<local_cache, redis, redis_client, downstream, confirmed>>

NextCache ==
    \/ InitCacheClient /\ UNCHANGED cacheFrame
    \/ ProxyGet /\ UNCHANGED cacheFrame
    \/ ProxyMutate /\ UNCHANGED cacheFrame
    \/ RouterList /\ UNCHANGED cacheFrame
    \/ RouterMutate /\ UNCHANGED cacheFrame
    \/ Expire /\ UNCHANGED cacheFrame
    \/ GwRespond /\ UNCHANGED cacheFrame

----------------------------------------------------------------------------
(* Requests *)

(* Bodies of POST /api/orders/{id}/payment. *)
PaymentActions ==
    {[action |-> Some("approve"), payment_id |-> None, receipt_id |-> None],
     [action |-> Some("approve"), payment_id |-> Some("pay1"), receipt_id |-> Some("rcp1")],
     [action |-> Some("decline"), payment_id |-> None, receipt_id |-> None],
     [action |-> Some("refund"), payment_id |-> None, receipt_id |-> None],
     [action |-> None, payment_id |-> None, receipt_id |-> None]}

(* Bodies of PUT /api/orders/{id}/status: a new order_status, and one body  *)
(* that also carries a payment field (the dict is forwarded as it is).      *)
StatusBodies ==
    {OrderUpdate(Some(st), None, None, None) : st \in OrderStatuses}
    \cup {OrderUpdate(None, None, None, None),
          OrderUpdate(Some("SHIPPED"), Some("COMPLETED"), None, None)}

(* Bodies of PUT /orders/{id} sent to the orders service directly. *)
DirectBodies ==
    {OrderUpdate(None, Some(x), None, None) : x \in PaymentStatuses}
    \cup {OrderUpdate(None, None, Some("pay2"), Some("rcp2")),
          OrderUpdate(Some("CANCELLED"), None, None, None)}

Idle ==
    [op |-> "none", order_id |-> 0, arg |-> None, success |-> FALSE,
     calls |-> <<>>, audit |-> <<>>, reported |-> None]

Record(op, order_id, arg, r) ==
    [op |-> op, order_id |-> order_id, arg |-> arg, success |-> r.success,
     calls |-> r.calls, audit |-> r.audit, reported |-> r.reported]

(* Order 1 as POST /orders/ creates it; order 2 and its shipment as a seeded *)
(* order that went through an approval.                                      *)
InitSaga ==
    /\ orders = (1 :> [order_status |-> "PENDING", payment_status |-> "PENDING",
                       payment_id |-> None, receipt_id |-> None])
             @@ (2 :> [order_status |-> "PROCESSING", payment_status |-> "COMPLETED",
                       payment_id |-> None, receipt_id |-> None])
    /\ shipments = <<[order_id |-> 2, status |-> "PENDING",
                      carrier |-> Some(StandardDelivery),
                      tracking_no |-> Some(Tracking(2, 0)),
                      shipped_at |-> Some(0), delivered_at |-> None]>>
    /\ utcnow = 0
    /\ last = Idle

(* PaymentDecision(order_id, action, [payment_id, receipt_id]) *)
ProcessPayment ==
    /\ last = Idle
    /\ \E order_id \in TargetOrders, payment_action \in PaymentActions :
        \E r \in process_payment(orders, shipments, order_id, payment_action, utcnow) :
            /\ DOMAIN r.shipments \subseteq ShipmentIds
            /\ orders' = r.orders
            /\ shipments' = r.shipments
            /\ last' = Record("process_payment", order_id, payment_action.action, r)
            /\ UNCHANGED utcnow

(* OrderStatusChange(order_id, new_status) *)
UpdateOrderStatus ==
    /\ last = Idle
    /\ \E order_id \in TargetOrders, status_data \in StatusBodies :
        \E r \in update_order_status(orders, shipments, order_id, status_data, utcnow) :
            /\ DOMAIN r.shipments \subseteq ShipmentIds
            /\ orders' = r.orders
            /\ shipments' = r.shipments
            /\ last' = Record("update_order_status", order_id, status_data.order_status, r)
            /\ UNCHANGED utcnow

(* A direct order-update request: PUT /orders/{order_id} on the orders service. *)
UpdateOrder ==
    /\ last = Idle
    /\ \E order_id \in TargetOrders, payload \in DirectBodies :
        LET r == update_order(orders, order_id, payload) IN
        /\ orders' = r.orders
        /\ last' = Record("update_order", order_id, payload.order_status,
                          [success |-> r.code = 200, calls |-> <<>>, audit |-> <<>>,
                           reported |-> None])
        /\ UNCHANGED <<shipments, utcnow>>

(* The caller receives the response; the next request may start. *)
Respond ==
    /\ last # Idle
    /\ last' = Idle
    /\ UNCHANGED <<orders, shipments, utcnow>>

(* Time passes between requests. *)
Tick ==
    /\ last = Idle
    /\ utcnow < MaxClock
    /\ utcnow' = utcnow + 1
    /\ UNCHANGED <<orders, shipments, last>>

NextSaga ==
    \/ ProcessPayment /\ UNCHANGED sagaFrame
    \/ UpdateOrderStatus /\ UNCHANGED sagaFrame
    \/ UpdateOrder /\ UNCHANGED sagaFrame
    \/ Respond /\ UNCHANGED sagaFrame
    \/ Tick /\ UNCHANGED sagaFrame

----------------------------------------------------------------------------
(* Dashboard activity feed and activity_logs table *)

RecentLimit == 50          \* if len(recent_activity) > 50: pop()
ActivityPage == 20         \* recent_activity[-20:]
MaxAdded == 52
MaxUnpersisted == 1
Roles == {"admin", "guest"}

(* Python's list[-n:] *)
LastN(list, n) == SubSeq(list, Max(1, Len(list) - n + 1), Len(list))

(* add_activity: insert at the head, drop the tail beyond 50, then INSERT;  *)
(* an INSERT that raises is printed and passed over.                        *)
add_activity(recent, logs, activity, persisted) ==
    LET inserted == <<activity>> \o recent IN
    [recent_activity |-> IF Len(inserted) > RecentLimit
                         THEN SubSeq(inserted, 1, Len(inserted) - 1)
                         ELSE inserted,
     activity_logs |-> IF persisted THEN logs \cup {activity} ELSE logs]

(* GET /api/activity *)
get_activity(recent) == LastN(recent, ActivityPage)

(* DELETE /api/logs/clear: 403 unless admin; DELETE FROM activity_logs, or  *)
(* 500 when the transaction raised and rolled back.                         *)
clear_logs(logs, role, db_ok) ==
    IF role # "admin" THEN [code |-> 403, deleted_count |-> 0, activity_logs |-> logs]
    ELSE IF ~db_ok THEN [code |-> 500, deleted_count |-> 0, activity_logs |-> logs]
    ELSE [code |-> 200, deleted_count |-> Cardinality(logs), activity_logs |-> {}]

NoReply == [op |-> "none"]

InitAudit ==
    /\ recent_activity = <<>>
    /\ activity_logs = {}
    /\ added = 0
    /\ unpersisted = 0
    /\ reply = NoReply

(* Any handler's call of add_activity; the activity is named by its number. *)
AddActivity ==
    /\ reply = NoReply
    /\ added < MaxAdded
    /\ \E persisted \in BOOLEAN :
        LET r == add_activity(recent_activity, activity_logs, added + 1, persisted) IN
        /\ ~persisted => unpersisted < MaxUnpersisted
        /\ recent_activity' = r.recent_activity
        /\ activity_logs' = r.activity_logs
        /\ unpersisted' = IF persisted THEN unpersisted ELSE unpersisted + 1
    /\ added' = added + 1
    /\ UNCHANGED reply

GetActivity ==
    /\ reply = NoReply
    /\ reply' = [op |-> "get_activity", body |-> get_activity(recent_activity)]
    /\ UNCHANGED <<recent_activity, activity_logs, added, unpersisted>>

ClearLogs ==
    /\ reply = NoReply
    /\ \E role \in Roles, db_ok \in BOOLEAN :
        LET r == clear_logs(activity_logs, role, db_ok) IN
        /\ activity_logs' = r.activity_logs
        /\ reply' = [op |-> "clear_logs", code |-> r.code,
                     deleted_count |-> r.deleted_count]
    /\ UNCHANGED <<recent_activity, added, unpersisted>>

(* The response goes out. *)
AuditRespond ==
    /\ reply # NoReply
    /\ reply' = NoReply
    /\ UNCHANGED <<recent_activity, activity_logs, added, unpersisted>>

NextAudit ==
    \/ AddActivity /\ UNCHANGED auditFrame
    \/ GetActivity /\ UNCHANGED auditFrame
    \/ ClearLogs /\ UNCHANGED auditFrame
    \/ AuditRespond /\ UNCHANGED auditFrame

----------------------------------------------------------------------------
(* Gateway cache keys of read requests with parameters *)

(* Parameter names in the order sort_keys puts them, and their values. *)
ParamNames == <<"skip", "take">>
ParamValues == {"0", "50"}

(* A query as the client wrote it: (name, value) pairs, no name twice. *)
Queries(values) ==
    {<<>>}
    \cup {<<<<ParamNames[i], v>>>> : i \in DOMAIN ParamNames, v \in values}
    \cup {<<<<ParamNames[p[1]], v>>, <<ParamNames[p[2]], w>>>> :
            p \in {d \in (DOMAIN ParamNames) \X (DOMAIN ParamNames) : d[1] # d[2]},
            v \in values, w \in values}

(* str(request.query_params): urlencode of the pairs in the order given. *)
RECURSIVE urlencode(_)
urlencode(query) ==
    IF query = <<>> THEN <<>>
    ELSE <<query[1][1], "=", query[1][2]>>
         \o (IF Len(query) > 1 THEN <<"&">> ELSE <<>>)
         \o urlencode(Tail(query))

(* json.dumps(filtered, sort_keys=True): None values dropped, the others     *)
(* written in the order of their names.                                     *)
RECURSIVE dumps_sorted(_, _)
dumps_sorted(args, i) ==
    IF i > Len(ParamNames) THEN <<>>
    ELSE LET given == {k \in DOMAIN args : args[k][1] = ParamNames[i]
                                           /\ args[k][2] # "None"}
         IN (IF given = {} THEN <<>>
             ELSE <<ParamNames[i], ":", args[CHOOSE k \in given : TRUE][2]>>)
            \o dumps_sorted(args, i + 1)

gql_build_cache_key(root_field, args) ==
    <<"gql:", root_field, ":">> \o dumps_sorted(args, 1)

KeyRequests(kind, values) ==
    {[kind |-> kind, requests |-> <<q1, q2>>, cache_keys |-> <<>>] :
        q1 \in Queries(values), q2 \in Queries(values)}

InitKeys ==
    keyed \in KeyRequests("rest", ParamValues)
              \cup KeyRequests("gql", ParamValues \cup {"None"})

(* proxy: two GETs of the customers list, each with its query string. *)
BuildRestKeys ==
    /\ keyed.kind = "rest"
    /\ keyed.cache_keys = <<>>
    /\ keyed' = [keyed EXCEPT !.cache_keys =
          [n \in 1..2 |-> RestKey(build_downstream_url("customers", <<>>),
                                  urlencode(keyed.requests[n]))]]

(* Query.customers: two queries of the field, each with its arguments. *)
BuildGqlKeys ==
    /\ keyed.kind = "gql"
    /\ keyed.cache_keys = <<>>
    /\ keyed' = [keyed EXCEPT !.cache_keys =
          [n \in 1..2 |-> gql_build_cache_key("customers", keyed.requests[n])]]

NextKeys ==
    \/ BuildRestKeys /\ UNCHANGED keyFrame
    \/ BuildGqlKeys /\ UNCHANGED keyFrame

----------------------------------------------------------------------------
(* Orders service: concurrent PUT /orders/{order_id} for one order.  The      *)
(* route runs in a worker thread with its own session; its guard reads the  *)
(* row, OrderService.update writes and commits, and no lock is taken        *)
(* between the two.                                                         *)

Putters == {"p1", "p2", "p3"}

(* The bodies the dashboard sends: approve, decline, a status change. *)
PutBodies ==
    {OrderUpdate(Some("PROCESSING"), Some("COMPLETED"), None, None),
     OrderUpdate(Some("CANCELLED"), Some("FAILED"), None, None),
     OrderUpdate(Some("SHIPPED"), None, None, None)}

NewOrder == [order_status |-> "PENDING", payment_status |-> "PENDING",
             payment_id |-> None, receipt_id |-> None]

InitPuts ==
    /\ order_row = NewOrder
    /\ puts \in [Putters -> {[pc |-> "received", payload |-> b, seen |-> None] :
                                b \in PutBodies}]

(* update_order up to the guard: the row is read, and refused with 403 when *)
(* the payment is finalized and the body touches a payment field.           *)
GuardCheck(p) ==
    /\ puts[p].pc = "received"
    /\ puts' = [puts EXCEPT ![p].seen = Some(order_row.payment_status),
                            ![p].pc = IF PaymentGuardRefuses(order_row, puts[p].payload)
                                      THEN "403" ELSE "checked"]
    /\ UNCHANGED order_row

(* OrderService.update: the provided fields are written and committed. *)
ServiceUpdate(p) ==
    /\ puts[p].pc = "checked"
    /\ order_row' = OrderServiceUpdate(order_row, puts[p].payload)
    /\ puts' = [puts EXCEPT ![p].pc = "200"]

NextPuts ==
    \/ (\E p \in Putters : GuardCheck(p)) /\ UNCHANGED putFrame
    \/ (\E p \in Putters : ServiceUpdate(p)) /\ UNCHANGED putFrame

----------------------------------------------------------------------------
(* Dashboard: concurrent fetch_metrics invocations (one per /ws client and   *)
(* per /api/health_snapshot call) on one event loop.  An invocation reads   *)
(* now once, then for each service compares now with next_check_at, awaits  *)
(* the probe, and only then writes backoff_sec and next_check_at.           *)

Fetchers == {"f1", "f2"}
ServiceOrder == <<"orders", "shipments">>      \* for service, url in SERVICES.items()
MaxFetchNow == 4000

NoFetch == [pc |-> "idle", at |-> 0, now |-> 0]
NoFetchers == [f \in Fetchers |-> NoFetch]

(* The loop goes on to the next service, or fetch_metrics returns. *)
NextService(fetch) ==
    IF fetch.at < Len(ServiceOrder)
    THEN [fetch EXCEPT !.pc = "gate", !.at = @ + 1]
    ELSE NoFetch

(* now = time.monotonic() *)
FetchStart(f) ==
    /\ fetchers[f].pc = "idle"
    /\ fetchers' = [fetchers EXCEPT ![f] = [pc |-> "gate", at |-> 1, now |-> monotonic]]
    /\ UNCHANGED <<SERVICE_STATE, monotonic>>

(* if now < state["next_check_at"]: reuse and continue; else send the probe. *)
FetchGate(f) ==
    /\ fetchers[f].pc = "gate"
    /\ fetchers' = [fetchers EXCEPT ![f] =
          IF BackoffWindowOpen(@.now, SERVICE_STATE[ServiceOrder[@.at]])
          THEN NextService(@)
          ELSE [@ EXCEPT !.pc = "probing"]]
    /\ UNCHANGED <<SERVICE_STATE, monotonic>>

(* The awaited probe ends; the state record is written. *)
FetchProbed(f) ==
    /\ fetchers[f].pc = "probing"
    /\ \E outcome \in ProbeOutcomes, jitter \in Jitters :
        SERVICE_STATE' = [SERVICE_STATE EXCEPT ![ServiceOrder[fetchers[f].at]] =
                            Probe(@, fetchers[f].now, outcome, jitter)]
    /\ fetchers' = [fetchers EXCEPT ![f] = NextService(@)]
    /\ UNCHANGED monotonic

(* Time passes. *)
FetchTick ==
    /\ \E d \in TickSteps :
        /\ monotonic + d <= MaxFetchNow
        /\ monotonic' = monotonic + d
    /\ UNCHANGED <<SERVICE_STATE, fetchers>>

NextFetchers ==
    \/ (\E f \in Fetchers : FetchStart(f)) /\ UNCHANGED fetchFrame
    \/ (\E f \in Fetchers : FetchGate(f)) /\ UNCHANGED fetchFrame
    \/ (\E f \in Fetchers : FetchProbed(f)) /\ UNCHANGED fetchFrame
    \/ FetchTick /\ UNCHANGED fetchFrame

----------------------------------------------------------------------------
(* Gateway: concurrent proxy requests for the orders list.  proxy is a       *)
(* coroutine: cache_get and the sending of the downstream request run       *)
(* before its await, the invalidation or the cache_set after it, and other  *)
(* requests run in between.  There is no Redis client here (local tier).    *)

Proxies == {"x1", "x2", "x3"}
ProxyMethods == {"GET", "POST"}
ProxyKey == RestKey(build_downstream_url("orders", <<>>), <<>>)

InitProxies ==
    /\ InitCache
    /\ inflight \in [Proxies -> {[pc |-> "received", method |-> m, data |-> None] :
                                    m \in ProxyMethods}]

(* cache_get; on a miss, or for a mutation, the downstream request goes out. *)
ProxySend(x) ==
    /\ inflight[x].pc = "received"
    /\ LET cached == IF inflight[x].method = "GET"
                     THEN cache_get(local_cache, redis, redis_client, ProxyKey, TRUE)
                     ELSE None
       IN inflight' = [inflight EXCEPT ![x] =
             IF cached # None THEN [@ EXCEPT !.pc = "done", !.data = cached]
             ELSE [@ EXCEPT !.pc = "sent"]]
    /\ UNCHANGED <<local_cache, downstream, confirmed>>

(* The orders service handles the request: a read of its data as it is, or  *)
(* a write.                                                                 *)
ProxyServed(x) ==
    /\ inflight[x].pc = "sent"
    /\ downstream' = IF inflight[x].method = "GET" THEN downstream
                     ELSE [downstream EXCEPT !["orders"] = @ + 1]
    /\ inflight' = [inflight EXCEPT ![x].pc = "answered",
                                    ![x].data = Some(Json(200, downstream'["orders"]))]
    /\ UNCHANGED <<local_cache, confirmed>>

(* The response arrived: _invalidate_caches for a mutation answered < 400,  *)
(* cache_set for a GET.                                                     *)
ProxyFinish(x) ==
    /\ inflight[x].pc = "answered"
    /\ IF InvalidatesOn(inflight[x].method, 200)
       THEN /\ local_cache' = invalidate_caches(local_cache, redis, redis_client,
                                                "orders", None, {}).local
            /\ confirmed' = [confirmed EXCEPT !["orders"] =
                                Max(@, Val(inflight[x].data).body)]
       ELSE /\ local_cache' = cache_set(local_cache, redis, redis_client, ProxyKey,
                                        Val(inflight[x].data), TRUE).local
            /\ UNCHANGED confirmed
    /\ inflight' = [inflight EXCEPT ![x].pc = "done"]
    /\ UNCHANGED downstream

NextProxies ==
    \/ (\E x \in Proxies : ProxySend(x)) /\ UNCHANGED proxyFrame
    \/ (\E x \in Proxies : ProxyServed(x)) /\ UNCHANGED proxyFrame
    \/ (\E x \in Proxies : ProxyFinish(x)) /\ UNCHANGED proxyFrame

NoKeys == [kind |-> "none", requests |-> <<>>, cache_keys |-> <<>>]
NoProxies == [x \in Proxies |-> [pc |-> "none"]]
NoPuts == [p \in Putters |-> [pc |-> "none"]]

(* The parts a specification does not exercise. *)
InitRest ==
    /\ keyed = NoKeys /\ order_row = NewOrder /\ puts = NoPuts
    /\ fetchers = NoFetchers /\ inflight = NoProxies

Init == InitSaga /\ InitHealth /\ InitCache /\ InitAudit /\ InitRest

SpecSaga == Init /\ [][NextSaga]_vars

SpecHealth == Init /\ [][NextHealth]_vars

SpecCache == Init /\ [][NextCache]_vars

SpecAudit == Init /\ [][NextAudit]_vars

InitWithKeys ==
    /\ InitSaga /\ InitHealth /\ InitCache /\ InitAudit /\ InitKeys
    /\ order_row = NewOrder /\ puts = NoPuts /\ fetchers = NoFetchers
    /\ inflight = NoProxies

SpecKeys == InitWithKeys /\ [][NextKeys]_vars

InitWithPuts ==
    /\ InitSaga /\ InitHealth /\ InitCache /\ InitAudit /\ InitPuts
    /\ keyed = NoKeys /\ fetchers = NoFetchers /\ inflight = NoProxies

SpecPuts == InitWithPuts /\ [][NextPuts]_vars

SpecFetchers == Init /\ [][NextFetchers]_vars

InitWithProxies ==
    /\ InitSaga /\ InitHealth /\ InitAudit /\ InitProxies
    /\ keyed = NoKeys /\ order_row = NewOrder /\ puts = NoPuts
    /\ fetchers = NoFetchers

SpecProxies == InitWithProxies /\ [][NextProxies]_vars

----------------------------------------------------------------------------
(* Properties of the saga *)

IsRequest(op) == last = Idle /\ last'.op = op

(* C1: after any sequence of PaymentDecision and OrderStatusChange events an *)
(* order has at most one Shipment (two approvals leave exactly one).         *)
C1_AtMostOneShipment ==
    \A o \in TargetOrders : Cardinality(ShipmentsOf(shipments, o)) <= 1

(* C2: a PaymentDecision for an order whose payment_status is already        *)
(* COMPLETED or FAILED is rejected: success = false, no order update, no     *)
(* shipment creation.                                                        *)
C2_FinalizedDecisionRejected ==
    [][(/\ IsRequest("process_payment")
        /\ orders[last'.order_id].payment_status \in FinalPayment)
       => (/\ ~last'.success
           /\ orders' = orders
           /\ shipments' = shipments)]_vars

(* C3: the saga creates a Shipment, or moves one to IN_TRANSIT, only while   *)
(* the stored payment_status of the owning order is COMPLETED.               *)
C3_ShipOnlyWhenCompleted ==
    [][\A i \in DOMAIN shipments' :
        (\/ i \notin DOMAIN shipments
         \/ (shipments'[i].status = "IN_TRANSIT" /\ shipments[i].status # "IN_TRANSIT"))
        => orders'[shipments'[i].order_id].payment_status = "COMPLETED"]_vars

(* C4: OrderStatusChange(order, SHIPPED) on an order whose payment_status is *)
(* not COMPLETED is rejected before any write: failure result, shipments and *)
(* order_status unchanged.                                                   *)
C4_ShipGuardRejects ==
    [][(/\ IsRequest("update_order_status")
        /\ last'.arg = Some("SHIPPED")
        /\ orders[last'.order_id].payment_status # "COMPLETED")
       => (/\ ~last'.success
           /\ shipments' = shipments
           /\ orders'[last'.order_id].order_status = orders[last'.order_id].order_status)]_vars

(* C5: once payment_status is COMPLETED or FAILED, no request changes the    *)
(* order's payment_status, payment_id or receipt_id.                         *)
C5_PaymentFieldsFrozen ==
    [][\A o \in OrderIds :
        orders[o].payment_status \in FinalPayment
        => (/\ orders'[o].payment_status = orders[o].payment_status
            /\ orders'[o].payment_id = orders[o].payment_id
            /\ orders'[o].receipt_id = orders[o].receipt_id)]_vars

(* A finalized order carrying payment ids on which a direct update of the    *)
(* payment fields was just refused.                                          *)
C5_Witness ==
    /\ last.op = "update_order"
    /\ ~last.success
    /\ orders[last.order_id].payment_status = "COMPLETED"
    /\ orders[last.order_id].payment_id = Some("pay1")

IsShipmentWrite(call) == call.call \in {"POST shipment", "PUT shipment"}

(* C7: within one OrderStatusChange the write of the order is the last       *)
(* downstream write, issued after the shipment-side writes.                  *)
C7_OrderWriteLast ==
    last.op = "update_order_status"
    => \A i, j \in DOMAIN last.calls :
            (last.calls[i].call = "PUT order" /\ IsShipmentWrite(last.calls[j])) => j < i

IsGatewayRead == gw = GwIdle /\ gw'.op \in {"proxy", "router"} /\ gw'.method = "GET"

IsGatewayMutation ==
    gw = GwIdle /\ gw'.op \in {"proxy", "router"} /\ gw'.method \in Mutating

(* C6: after a mutating call to a resource was answered with success, a     *)
(* gateway read of its list or detail key returns no value that was cached   *)
(* before that mutation: a value served from the cache was computed from    *)
(* data at least as new as the last confirmed mutation of the service.      *)
C6_NoStaleReadAfterMutation ==
    [][(IsGatewayRead /\ gw'.cached # None)
       => Val(gw'.cached).body >= confirmed[gw'.service]]_vars

(* C8: a service whose backoff window is open (now < next_check_at) when    *)
(* fetch_metrics runs is not probed, keeps its state record, and is         *)
(* reported with its last status, or 'unknown' where there is none.         *)
C8_OpenWindowSkipsProbe ==
    [][(metrics = NoMetrics /\ metrics' # NoMetrics)
       => \A s \in Services :
            monotonic < SERVICE_STATE[s].next_check_at
            => /\ ~metrics'[s].probed
               /\ SERVICE_STATE'[s] = SERVICE_STATE[s]
               /\ metrics'[s].status =
                    (IF SERVICE_STATE[s].last_status = None THEN "unknown"
                     ELSE SERVICE_STATE[s].last_status[1])]_vars

(* A fetch that reused one service's last status while it probed the other. *)
C8_Witness ==
    /\ metrics # NoMetrics
    /\ ~metrics["orders"].probed
    /\ metrics["orders"].status = "unhealthy"
    /\ monotonic < SERVICE_STATE["orders"].next_check_at
    /\ metrics["shipments"].probed

(* C9: backoff_sec stays within [POLL_INTERVAL_SEC, BACKOFF_MAX_SEC]; a     *)
(* failed probe never lowers it, a successful probe resets it to            *)
(* POLL_INTERVAL_SEC.                                                       *)
C9_BackoffBounded ==
    /\ [](\A s \in Services :
            /\ SERVICE_STATE[s].backoff_sec >= POLL_INTERVAL_SEC
            /\ SERVICE_STATE[s].backoff_sec <= BACKOFF_MAX_SEC)
    /\ [][(metrics = NoMetrics /\ metrics' # NoMetrics)
          => \A s \in Services :
               metrics'[s].probed
               => IF metrics'[s].status = "healthy"
                  THEN SERVICE_STATE'[s].backoff_sec = POLL_INTERVAL_SEC
                  ELSE SERVICE_STATE'[s].backoff_sec >= SERVICE_STATE[s].backoff_sec]_vars

(* A failed probe that left the backoff at its cap. *)
C9_Witness ==
    /\ metrics # NoMetrics
    /\ metrics["orders"].probed
    /\ metrics["orders"].status = "error"
    /\ SERVICE_STATE["orders"].backoff_sec = BACKOFF_MAX_SEC

ServiceKeys(cache, service) ==
    {k \in DOMAIN cache : StartsWith(k, ListPrefix(service))}

(* C10: a mutating call answered with a success status is followed, before  *)
(* the response, by the invalidation of the service's keys, the downstream  *)
(* call coming first; a mutating call that fails invalidates nothing and    *)
(* leaves both cache tiers as they were.                                    *)
C10_InvalidationFollowsSuccess ==
    [][IsGatewayMutation
       => IF gw'.status_code \in 1..399
          THEN /\ gw'.calls = <<"downstream", "invalidate">>
               /\ ServiceKeys(local_cache', gw'.service) = {}
               /\ gw'.purged => ServiceKeys(redis', gw'.service) = {}
          ELSE /\ gw'.calls = <<"downstream">>
               /\ local_cache' = local_cache
               /\ redis' = redis]_vars

(* A confirmed write to customers that purged its keys and left the orders  *)
(* list in the shared tier.                                                 *)
C10_Witness ==
    /\ gw \notin {GwIdle, GwBoot}
    /\ gw.method = "PUT"
    /\ gw.service = "customers"
    /\ gw.status_code = 200
    /\ gw.purged
    /\ confirmed["customers"] = 1
    /\ ServiceKeys(redis, "customers") = {}
    /\ ServiceKeys(redis, "orders") # {}

GwKey == RestKey(build_downstream_url(gw'.service, gw'.path), <<>>)

(* C11: a Redis operation that raises inside cache_get, cache_set or        *)
(* cache_delete_pattern does not reach the caller: the get answers with the *)
(* local entry (or a miss), the set stores the value in the local tier, the *)
(* delete still purges the local entries, and the response carries the      *)
(* status of the downstream call.                                           *)
C11_RedisFailureDegradesToLocal ==
    [][(gw = GwIdle /\ gw'.op \in {"proxy", "router"})
       => /\ "get" \in gw'.faults
             => /\ gw'.cached = (IF GwKey \in DOMAIN local_cache
                                 THEN Some(local_cache[GwKey]) ELSE None)
                /\ gw'.cached = None => gw'.calls[2] = "downstream"
          /\ "set" \in gw'.faults
             => /\ GwKey \in DOMAIN local_cache'
                /\ local_cache'[GwKey] = Json(gw'.status_code, downstream[gw'.service])
                /\ redis' = redis
          /\ "delete" \in gw'.faults
             => /\ ServiceKeys(local_cache', gw'.service) = {}
                /\ gw'.status_code \in 1..399]_vars

(* A read that found Redis failing on the get and on the set, and stored    *)
(* the downstream answer in the local tier.                                 *)
C11_Witness ==
    /\ gw \notin {GwIdle, GwBoot}
    /\ gw.faults = {"get", "set"}
    /\ gw.status_code = 200
    /\ RestKey(build_downstream_url(gw.service, gw.path), <<>>) \in DOMAIN local_cache
    /\ redis # <<>>

TerminalShipment == {"DELIVERED", "CANCELLED"}

(* C12: DELIVERED and CANCELLED are terminal for a Shipment: once its       *)
(* status is one of them, no OrderStatusChange or PaymentDecision changes   *)
(* its status.                                                              *)
C12_TerminalShipmentStatus ==
    [][\A i \in DOMAIN shipments :
        shipments[i].status \in TerminalShipment
        => shipments'[i].status = shipments[i].status]_vars

(* C13: OrderStatusChange(order, DELIVERED) is rejected, order_status left  *)
(* as it was, when the order has no Shipment that is IN_TRANSIT or PENDING. *)
C13_DeliverGuardRejects ==
    [][(/\ IsRequest("update_order_status")
        /\ last'.arg = Some("DELIVERED")
        /\ \A i \in ShipmentsOf(shipments, last'.order_id) :
                shipments[i].status \notin {"IN_TRANSIT", "PENDING"})
       => (/\ ~last'.success
           /\ orders'[last'.order_id].order_status = orders[last'.order_id].order_status)]_vars

InCalls(call, calls) == \E i \in DOMAIN calls : calls[i].call = call

HasAudit(action, entity_type, audit) ==
    \E i \in DOMAIN audit :
        audit[i].action = action /\ audit[i].entity_type = entity_type

(* C14: when the approve wrote the order (PENDING to COMPLETED) and the     *)
(* shipment POST that followed failed, by an error response or by a raised  *)
(* timeout / connection error, process_payment returns success=true and the *)
(* order stays COMPLETED / PROCESSING.                                      *)
C14_ShipmentFailureKeepsApproval ==
    [][(/\ IsRequest("process_payment")
        /\ last'.arg = Some("approve")
        /\ orders[last'.order_id].payment_status = "PENDING"
        /\ orders'[last'.order_id].payment_status = "COMPLETED"
        /\ InCalls("POST shipment", last'.calls)
        /\ ~HasAudit("CREATE", "shipment", last'.audit))
       => (/\ last'.success
           /\ orders'[last'.order_id].payment_status = "COMPLETED"
           /\ orders'[last'.order_id].order_status = "PROCESSING")]_vars

(* The request reached every downstream service and each answered 200/201. *)
AllSucceeded(calls) == \A i \in DOMAIN calls : calls[i].code \in {200, 201}

AuditFor(action, entity_type, entity_ids, audit) ==
    {i \in DOMAIN audit : /\ audit[i].action = action
                          /\ audit[i].entity_type = entity_type
                          /\ audit[i].entity_id \in entity_ids}

(* C15: an approve on an order with payment_status PENDING and no shipment, *)
(* every downstream call succeeding, ends with the order PROCESSING /       *)
(* COMPLETED and exactly one shipment for the order, in status PENDING, and *)
(* appends a PAYMENT audit record for the order and a CREATE audit record   *)
(* for the shipment.                                                        *)
C15_ApproveCreatesPendingShipment ==
    [][(/\ IsRequest("process_payment")
        /\ last'.arg = Some("approve")
        /\ orders[last'.order_id].payment_status = "PENDING"
        /\ ShipmentsOf(shipments, last'.order_id) = {}
        /\ AllSucceeded(last'.calls))
       => (/\ orders'[last'.order_id].order_status = "PROCESSING"
           /\ orders'[last'.order_id].payment_status = "COMPLETED"
           /\ Cardinality(ShipmentsOf(shipments', last'.order_id)) = 1
           /\ \A i \in ShipmentsOf(shipments', last'.order_id) :
                    shipments'[i].status = "PENDING"
           /\ AuditFor("PAYMENT", "order", {last'.order_id}, last'.audit) # {}
           /\ AuditFor("CREATE", "shipment",
                       ShipmentsOf(shipments', last'.order_id), last'.audit) # {})]_vars

C15_Witness ==
    /\ last # Idle
    /\ last.op = "process_payment"
    /\ last.arg = Some("approve")
    /\ last.success
    /\ Len(last.calls) = 4
    /\ AllSucceeded(last.calls)
    /\ Cardinality(ShipmentsOf(shipments, last.order_id)) = 1
    /\ orders[last.order_id].payment_status = "COMPLETED"

(* A field that was set keeps its value. *)
KeepsSet(before, after) == IsNone(before) \/ after = before

Deliverable(ships, order_id) ==
    {i \in ShipmentsOf(ships, order_id) : MayDeliver(ships[i].status)}

(* C17: DELIVERED, the calls of the request succeeding, sets a shipment of  *)
(* the order to DELIVERED with delivered_at set exactly when the order has  *)
(* a shipment whose status is IN_TRANSIT or PENDING; in every other case    *)
(* the event changes no shipment field.                                     *)
C17_DeliverExactlyWhenInTransitOrPending ==
    [][(/\ IsRequest("update_order_status")
        /\ last'.arg = Some("DELIVERED")
        /\ AllSucceeded(last'.calls))
       => IF Deliverable(shipments, last'.order_id) # {}
          THEN \E i \in Deliverable(shipments, last'.order_id) :
                    /\ shipments'[i].status = "DELIVERED"
                    /\ shipments'[i].delivered_at = Some(utcnow)
          ELSE shipments' = shipments]_vars

C19_ProbeExceptionAbsorbed ==
    [][(metrics = NoMetrics /\ metrics' # NoMetrics)
       => \A s \in Services :
            (metrics'[s].probed /\ metrics'[s].status = "error")
            => /\ SERVICE_STATE'[s].last_status = Some("error")
               /\ SERVICE_STATE'[s].backoff_sec =
                     Min(BACKOFF_MAX_SEC,
                         Max(POLL_INTERVAL_SEC,
                             SERVICE_STATE[s].backoff_sec * BACKOFF_FACTOR))
               /\ \E j \in Jitters :
                     SERVICE_STATE'[s].next_check_at =
                       monotonic + Max(MIN_DELAY_MS, SERVICE_STATE'[s].backoff_sec + j)
               /\ SERVICE_STATE'[s].next_check_at > monotonic
               /\ \A r \in Services \ {s} :
                     /\ metrics'[r].status # "none"
                     /\ metrics'[r].probed
                          <=> ~(monotonic < SERVICE_STATE[r].next_check_at)]_vars

(* A fetch in which the probe of orders raised after an earlier failure and *)
(* the probe of shipments, later in the loop, was answered.                 *)
C19_Witness ==
    /\ metrics # NoMetrics
    /\ metrics["orders"].probed
    /\ metrics["orders"].status = "error"
    /\ SERVICE_STATE["orders"].backoff_sec = 2 * BACKOFF_FACTOR * POLL_INTERVAL_SEC
    /\ metrics["shipments"].probed
    /\ metrics["shipments"].status = "healthy"

(* A GET /health goes out to service s in this step. *)
ProbeIssued(s) ==
    \/ metrics = NoMetrics /\ metrics' # NoMetrics /\ metrics'[s].probed
    \/ sweep = NoSweep /\ sweep' # NoSweep /\ s \in sweep'.probed

(* C20: no operation of the dashboard issues a health probe to a service    *)
(* while that service's backoff window is open (now < next_check_at).       *)
C20_NoProbeBypassesGate ==
    [][\A s \in Services :
         ProbeIssued(s) => ~(monotonic < SERVICE_STATE[s].next_check_at)]_vars

(* The activities added so far, newest first, at most n of them. *)
NewestFirst(n) == [i \in 1..Min(n, added) |-> added + 1 - i]

(* C21: the activity_logs table is append-only -- a row persisted by        *)
(* add_activity is still there after any later dashboard operation -- while *)
(* the in-memory feed holds the most recent 50 activities, newest first.    *)
C21_AuditAppendOnly ==
    [][/\ activity_logs \subseteq activity_logs'
       /\ recent_activity' = NewestFirst(RecentLimit)']_vars

(* The same parameter names and values, in whatever order. *)
SameParams(q1, q2) ==
    /\ Len(q1) = Len(q2)
    /\ {q1[i] : i \in DOMAIN q1} = {q2[i] : i \in DOMAIN q2}

(* C22: two read requests for the same URL, or the same GraphQL field, with *)
(* the same parameter names and values in a different order get the same    *)
(* cache key.                                                               *)
C22_KeyOrderIndependent ==
    (keyed.cache_keys # <<>> /\ SameParams(keyed.requests[1], keyed.requests[2]))
    => keyed.cache_keys[1] = keyed.cache_keys[2]

(* C27: with the shared tier reachable again, a read served from the cache  *)
(* returns no value cached before the last successful mutation of the       *)
(* resource, also where the shared tier failed during that mutation's       *)
(* invalidation and only the local tier was purged.                         *)
C27_SharedTierPurgeFailure ==
    [][(/\ IsGatewayRead
        /\ redis_client # None
        /\ "get" \notin gw'.faults
        /\ gw'.cached # None)
       => Val(gw'.cached).body >= confirmed[gw'.service]]_vars

(* C30: the proxy stores the answer of a GET only when the downstream      *)
(* status is a success, and a GET served from the cache is never served a   *)
(* downstream error answer (404 for a missing entity).                      *)
C30_ErrorAnswerNotCached ==
    [][(IsGatewayRead /\ gw'.op = "proxy")
       => /\ (\E i \in DOMAIN gw'.calls : gw'.calls[i] = "cache_set")
               => gw'.status_code < 400
          /\ gw'.cached # None => Val(gw'.cached).code < 400]_vars

(* C29: get_activity returns the 20 most recently added activities, all of *)
(* them when fewer than 20 were added (in whatever order).                  *)
C29_ActivityPageIsNewest ==
    reply.op = "get_activity"
    => {reply.body[i] : i \in DOMAIN reply.body}
         = {NewestFirst(ActivityPage)[i] : i \in DOMAIN NewestFirst(ActivityPage)}

(* C26: an approve is answered success=true, payment_status COMPLETED, only *)
(* when that request stored payment_status COMPLETED on the order: its      *)
(* order PUT was answered 200 and the order is COMPLETED afterwards.  A     *)
(* non-200 order fetch and a refused or failed order PUT end success=false. *)
C26_SuccessOnlyWhenPersisted ==
    [][(/\ IsRequest("process_payment")
        /\ last'.arg = Some("approve")
        /\ last'.success)
       => /\ \E i \in DOMAIN last'.calls :
                last'.calls[i] = Call("PUT order", 200)
          /\ orders'[last'.order_id].payment_status = "COMPLETED"]_vars

(* C28: a payment request whose action is neither 'approve' nor 'decline',  *)
(* a missing action included, changes no order and no shipment and is not   *)
(* answered as a successful decline.                                        *)
C28_UnknownActionRejected ==
    [][(/\ IsRequest("process_payment")
        /\ last'.arg \notin {Some("approve"), Some("decline")})
       => /\ orders' = orders
          /\ shipments' = shipments
          /\ ~(last'.success /\ last'.reported = Some("FAILED"))]_vars

(* The committed payment_status moves from one final value to the other. *)
Refinalized ==
    /\ order_row.payment_status \in FinalPayment
    /\ order_row'.payment_status \in FinalPayment
    /\ order_row'.payment_status # order_row.payment_status

(* C24 as stated: with concurrent order updates that touch payment fields,  *)
(* under every interleaving of guard check and update, payment_status never *)
(* changes from COMPLETED to FAILED or from FAILED to COMPLETED.            *)
C24_AtMostOneFinalizes == [][~Refinalized]_vars

(* C24 as it holds: the guard refuses, without writing, every request whose *)
(* check reads a finalized payment and whose body touches a payment field;  *)
(* payment_status moves from one final value to the other only by a request *)
(* whose guard check read PENDING, before the other update was committed.   *)
C24_GuardProtectsAfterCommit ==
    [][\A p \in Putters :
         /\ (/\ puts[p].pc = "received" /\ puts'[p].pc # "received"
             /\ order_row.payment_status \in FinalPayment
             /\ touching_payment_fields(puts[p].payload))
            => (puts'[p].pc = "403" /\ order_row' = order_row)
         /\ (puts[p].pc = "checked" /\ puts'[p].pc = "200" /\ Refinalized)
            => puts[p].seen = Some("PENDING")]_vars

(* Approve and decline both answered 200, the decline written last. *)
C24_Witness ==
    /\ puts["p1"].pc = "200"
    /\ puts["p1"].payload.payment_status = Some("COMPLETED")
    /\ puts["p2"].pc = "200"
    /\ puts["p2"].payload.payment_status = Some("FAILED")
    /\ puts["p3"].pc = "403"
    /\ order_row.payment_status = "FAILED"
    /\ order_row.order_status = "CANCELLED"

(* C25: with several fetch_metrics invocations running, no two of them are *)
(* past the gate and probing the same service before either has written    *)
(* next_check_at.                                                           *)
C25_OneProbePerWindow ==
    \A f, g \in Fetchers :
        (/\ fetchers[f].pc = "probing"
         /\ fetchers[g].pc = "probing"
         /\ fetchers[f].at = fetchers[g].at)
        => f = g

(* C23: under any interleaving of gateway GETs of a resource (miss,         *)
(* downstream fetch, cache_set) with concurrent successful mutations of it  *)
(* (downstream write, invalidation), once the requests have completed the   *)
(* cache holds no value for the resource that was fetched from downstream   *)
(* before a mutation's write.                                               *)
C23_NoStaleEntryAfterRace ==
    (\A x \in Proxies : inflight[x].pc = "done")
    => \A k \in DOMAIN local_cache :
            StartsWith(k, ListPrefix("orders"))
            => local_cache[k].body >= confirmed["orders"]

====
